---------------------------- MODULE Spec2Model ----------------------------
(***************************************************************************)
(* PDF-Analyzer backend: DocumentProcessor.process followed by             *)
(* DocumentAnalyzer.forward, as wired by main.py / app.py.                  *)
(*                                                                         *)
(* Strings are sequences of one-character strings.  Every call into the    *)
(* rendering/OCR backend or the inference backend is an input of the       *)
(* action that makes it: the action draws the call's reply (a value or a   *)
(* failure) from a small set.  Every helper of the source is an operator   *)
(* that returns [exc, val]: the exception it lets escape ("none" when it   *)
(* returns) and the value it returns.                                      *)
(***************************************************************************)
EXTENDS Integers, Sequences, FiniteSets, TLC

(* ----------------------------- bounds ---------------------------------- *)
\* longest raw text of one page
MaxTextLen == 2
\* most pages of the documents whose pages vary freely
MaxPages == 2

(* ------------------------- program constants --------------------------- *)
MAX_FILE_SIZE == 2 * 1024 * 1024
MAX_FILE_PAGE == 10
\* scores are counted in hundredths: 0.6 is 60
MIN_CONFIDENCE == 60

(* ------------------------------ strings -------------------------------- *)
Char == {"a", " "}
\* the characters str.strip() removes, as far as they occur here
Whitespace == {" ", "\n"}

Strings(n) == UNION {[1..k -> Char] : k \in 0..n}

RECURSIVE lstrip(_)
lstrip(s) ==
    IF s # <<>> /\ Head(s) \in Whitespace THEN lstrip(Tail(s)) ELSE s

RECURSIVE rstrip(_)
rstrip(s) ==
    IF s # <<>> /\ s[Len(s)] \in Whitespace
    THEN rstrip(SubSeq(s, 1, Len(s) - 1))
    ELSE s

\* str.strip()
strip(s) == rstrip(lstrip(s))

(* ----------------------------- exceptions ------------------------------ *)
NoExc == "none"
FileNotFoundError == "FileNotFoundError"
InvalidDocumentError == "InvalidDocumentError"
ContentExtractionError == "ContentExtractionError"
\* pymupdf.FileDataError, raised by pymupdf.open on a file that is no PDF
FileDataError == "FileDataError"
\* whatever a failed inference call raises (no class of exceptions.py)
InferenceFailure == "Exception"

Ok(v) == [exc |-> NoExc, val |-> v]
Raise(e, v) == [exc |-> e, val |-> v]

(* ------------------------------ documents ------------------------------ *)
PageTexts == Strings(MaxTextLen)

PageSeqs == UNION {[1..k -> PageTexts] : k \in 0..MaxPages}

\* documents at and just over the page ceiling, all pages alike
LongPageSeqs ==
    {[i \in 1..k |-> t] : k \in {MAX_FILE_PAGE, MAX_FILE_PAGE + 1},
                          t \in {<<>>, <<"a">>}}

FileSizes == {MAX_FILE_SIZE, MAX_FILE_SIZE + 1}

\* a path: whether it exists, its size, whether pymupdf parses it, its pages
Documents ==
    {[exists |-> FALSE, size |-> 0, parses |-> FALSE, pages |-> <<>>]}
    \cup {[exists |-> TRUE, size |-> s, parses |-> FALSE, pages |-> <<>>] :
             s \in FileSizes}
    \cup {[exists |-> TRUE, size |-> s, parses |-> TRUE, pages |-> ps] :
             s \in FileSizes, ps \in PageSeqs \cup LongPageSeqs}

(* ---------------------- replies of the backends ------------------------ *)
\* the readability classifier: its verdict, or a failure of the call
ClassifierReplies == {[ok |-> TRUE, is_valid |-> v] : v \in BOOLEAN}
                     \cup {[ok |-> FALSE, is_valid |-> FALSE]}

\* OCR output: empty, shorter and longer than the native text, or a failure
OcrTexts == {<<>>, <<"b">>, <<"a", "\n">>,
             <<"b", "b", "b", "b", "b", "b", "b", "b">>}
OcrReplies == {[ok |-> TRUE, text |-> t] : t \in OcrTexts}
              \cup {[ok |-> FALSE, text |-> <<>>]}

(* ----------------------- DocumentProcessor helpers --------------------- *)
\* _validate_file without its size check
_validate_file_no_size_check(d) ==
    IF ~d.exists THEN Raise(FileNotFoundError, FALSE) ELSE Ok(TRUE)

_validate_file(d) ==
    IF ~d.exists THEN Raise(FileNotFoundError, FALSE)
    ELSE IF d.size > MAX_FILE_SIZE THEN Raise(InvalidDocumentError, FALSE)
    ELSE Ok(TRUE)

\* process without its page-count check
open_document_no_page_check(d) ==
    IF d.parses THEN Ok(d.pages) ELSE Raise(InvalidDocumentError, <<>>)

\* pymupdf.open and the page-count check of process, with its except clause
open_document(d) ==
    LET opened == IF d.parses THEN Ok(d.pages) ELSE Raise(FileDataError, <<>>)
        checked == IF opened.exc # NoExc THEN opened
                   ELSE IF Len(opened.val) > MAX_FILE_PAGE
                        THEN Raise(InvalidDocumentError, <<>>)
                        ELSE opened
    IN  IF checked.exc = FileDataError
        THEN Raise(InvalidDocumentError, <<>>)
        ELSE checked

\* _extract_page_text that forgets the newline after the page
_extract_page_text_no_newline(raw, ok) ==
    IF ok THEN Ok(strip(raw)) ELSE Raise(ContentExtractionError, <<>>)

\* raw: what page.get_text() returns; ok: whether it returns at all
_extract_page_text(raw, ok) ==
    IF ok THEN Ok(strip(raw) \o <<"\n">>)
    ELSE Raise(ContentExtractionError, <<>>)

\* the image of page i is i
_render_page_image(i, ok) ==
    IF ok THEN Ok(i) ELSE Raise(ContentExtractionError, 0)

\* _ocr_fallback that trims what OCR rendered
_ocr_fallback_trimmed(reply) ==
    IF reply.ok THEN Ok(strip(reply.text))
    ELSE Raise(ContentExtractionError, <<>>)

_ocr_fallback(reply) ==
    IF reply.ok THEN Ok(reply.text)
    ELSE Raise(ContentExtractionError, <<>>)

\* _is_valid_content without its test for empty text
_is_valid_content_no_empty_test(t, reply) ==
    IF reply.ok
    THEN [exc |-> NoExc, val |-> reply.is_valid, called |-> TRUE]
    ELSE [exc |-> InferenceFailure, val |-> FALSE, called |-> TRUE]

\* called: whether the classifier was invoked
_is_valid_content(t, reply) ==
    IF strip(t) = <<>> THEN [exc |-> NoExc, val |-> FALSE, called |-> FALSE]
    ELSE IF reply.ok
         THEN [exc |-> NoExc, val |-> reply.is_valid, called |-> TRUE]
         ELSE [exc |-> InferenceFailure, val |-> FALSE, called |-> TRUE]

(* ---------------------- replies of the inference calls ------------------ *)
Quality == {"good", "poor", "unusable"}

Failed(v) == [ok |-> FALSE, val |-> v]
Replied(v) == [ok |-> TRUE, val |-> v]

\* the placeholders the except clauses substitute
DegradedText ==
    [description |-> "unknown", summary |-> "Text analysis unavailable",
     notable_info |-> <<>>, text_quality |-> "unusable"]
DegradedAnalysis ==
    [description |-> "unknown", summary |-> "Text analysis unavailable",
     notable_info |-> <<>>]
DegradedValidation == [confidence_score |-> 0, validation_notes |-> <<>>]

TextReplies ==
    {Replied([description |-> "text description", summary |-> "text summary",
              notable_info |-> <<"Author: T">>, text_quality |-> q]) :
        q \in Quality}
    \cup {Failed(DegradedText)}

ImageReplies ==
    {Replied([description |-> "image description",
              summary |-> "image summary",
              notable_info |-> <<"Issuer: I">>]),
     Replied([description |-> "scan", summary |-> "scan summary",
              notable_info |-> <<>>]),
     Failed(DegradedAnalysis)}

FusionReplies ==
    {Replied([description |-> "fused description",
              summary |-> "fused summary",
              notable_info |-> <<"Author: T", "Issuer: I">>]),
     Failed(DegradedAnalysis)}

\* confidence_score is a float the call is asked to keep within 0-1; in
\* hundredths, with values outside that range and around the threshold
Scores == {-10, 0, 59, 60, 100, 150}
ValidationReplies ==
    {Replied([confidence_score |-> sc, validation_notes |-> n]) :
        sc \in Scores, n \in {<<>>, <<"summary omits the date">>}}
    \cup {Failed(DegradedValidation)}

(* ------------------------ DocumentAnalyzer helpers --------------------- *)
\* _analyze_text whose placeholder reports quality "poor"
_analyze_text_placeholder_poor(t, reply) ==
    IF reply.ok THEN Ok(reply.val)
    ELSE Ok([DegradedText EXCEPT !.text_quality = "poor"])

_analyze_text(t, reply) ==
    IF reply.ok THEN Ok(reply.val) ELSE Ok(DegradedText)

_analyze_images(imgs, reply) ==
    IF reply.ok THEN Ok(reply.val) ELSE Ok(DegradedAnalysis)

\* _combine_results that fuses whatever the text quality
_combine_results_always_fuse(r_text, r_images, reply) ==
    IF reply.ok
    THEN [exc |-> NoExc, val |-> reply.val, called |-> TRUE]
    ELSE [exc |-> NoExc, val |-> DegradedAnalysis, called |-> TRUE]

\* called: whether the fusion call was made
_combine_results(r_text, r_images, reply) ==
    IF r_text.text_quality = "unusable"
    THEN [exc |-> NoExc, val |-> r_images, called |-> FALSE]
    ELSE IF reply.ok
         THEN [exc |-> NoExc, val |-> reply.val, called |-> TRUE]
         ELSE [exc |-> NoExc, val |-> DegradedAnalysis, called |-> TRUE]

\* _validate_results without its try/except
_validate_results_unguarded(t, imgs, r_combined, reply) ==
    IF reply.ok THEN Ok(reply.val)
    ELSE Raise(InferenceFailure, DegradedValidation)

_validate_results(t, imgs, r_combined, reply) ==
    IF reply.ok THEN Ok(reply.val) ELSE Ok(DegradedValidation)

_format_output(r_combined, r_validation) ==
    [description |-> r_combined.description,
     summary |-> r_combined.summary,
     notable_info |-> r_combined.notable_info,
     confidence |-> [score |-> r_validation.confidence_score,
                     notes |-> r_validation.validation_notes]]

\* the threshold test with "<=" in place of "<"
low_confidence_inclusive(r_validation) ==
    r_validation.confidence_score <= MIN_CONFIDENCE

\* the test of forward that guards logger.warning
low_confidence(r_validation) ==
    r_validation.confidence_score < MIN_CONFIDENCE

(* -------------------------------- state -------------------------------- *)
VARIABLES
    doc,        \* the document at the path given to process
    pc,         \* where the pipeline stands
    raised,     \* the exception that escaped, NoExc if none
    text,       \* process: text
    images,     \* process: images
    native,     \* the concatenated native text, as the quality gate saw it
    ocrOut,     \* what OCR returned, if it ran and succeeded
    calls,      \* how often each backend was called by process
    verdict,    \* what the readability classifier replied, if it was asked
    r_text,     \* forward: text_results
    r_images,   \* forward: images_results
    combined,   \* forward: combined_results
    validation, \* forward: validation_results
    made,       \* the inference calls forward has made
    failed,     \* those of them that failed
    warned,     \* whether forward logged the low-confidence warning
    output      \* what forward returned

procVars == <<doc, text, images, native, ocrOut, calls, verdict>>
anaVars == <<r_text, r_images, combined, validation, made, failed, warned,
             output>>
vars == <<doc, pc, raised, text, images, native, ocrOut, calls, verdict,
          r_text, r_images, combined, validation, made, failed, warned,
          output>>

NoText == [description |-> "", summary |-> "", notable_info |-> <<>>,
           text_quality |-> ""]
NoAnalysis == [description |-> "", summary |-> "", notable_info |-> <<>>]

NoCalls == [extract |-> 0, render |-> 0, classify |-> 0, ocr |-> 0]

Init ==
    /\ doc \in Documents
    /\ pc = "validate_file"
    /\ raised = NoExc
    /\ text = <<>>
    /\ images = <<>>
    /\ native = <<>>
    /\ ocrOut = <<>>
    /\ calls = NoCalls
    /\ verdict = "none"
    /\ r_text = NoText
    /\ r_images = NoAnalysis
    /\ combined = NoAnalysis
    /\ validation = DegradedValidation
    /\ made = {}
    /\ failed = {}
    /\ warned = FALSE
    /\ output = <<>>

Fail(e) == pc' = "raised" /\ raised' = e

(* --------------------- DocumentProcessor.process ----------------------- *)
ValidateFile ==
    /\ pc = "validate_file"
    /\ LET r == _validate_file(doc)
       IN  IF r.exc # NoExc THEN Fail(r.exc)
           ELSE pc' = "open" /\ UNCHANGED raised
    /\ UNCHANGED <<procVars, anaVars>>

OpenDocument ==
    /\ pc = "open"
    /\ LET r == open_document(doc)
       IN  IF r.exc # NoExc THEN Fail(r.exc)
           ELSE pc' = "pages" /\ UNCHANGED raised
    /\ UNCHANGED <<procVars, anaVars>>

\* one iteration of "for page in doc"
ProcessPage ==
    /\ pc = "pages"
    /\ Len(images) < Len(doc.pages)
    /\ \E textOk \in BOOLEAN, renderOk \in BOOLEAN :
         LET i == Len(images) + 1
             t == _extract_page_text(doc.pages[i], textOk)
             r == _render_page_image(i, renderOk)
         IN  IF t.exc # NoExc
             THEN /\ Fail(t.exc)
                  /\ calls' = [calls EXCEPT !.extract = @ + 1]
                  /\ UNCHANGED <<text, images>>
             ELSE IF r.exc # NoExc
             THEN /\ Fail(r.exc)
                  /\ calls' = [calls EXCEPT !.extract = @ + 1, !.render = @ + 1]
                  /\ text' = text \o t.val
                  /\ UNCHANGED images
             ELSE /\ calls' = [calls EXCEPT !.extract = @ + 1, !.render = @ + 1]
                  /\ text' = text \o t.val
                  /\ images' = Append(images, r.val)
                  /\ UNCHANGED <<pc, raised>>
    /\ UNCHANGED <<doc, native, ocrOut, verdict, anaVars>>

\* "if not self._is_valid_content(text)", and the return when it is valid
QualityGate ==
    /\ pc = "pages"
    /\ Len(images) = Len(doc.pages)
    /\ \E reply \in ClassifierReplies :
         LET v == _is_valid_content(text, reply)
         IN  /\ calls' = [calls EXCEPT
                            !.classify = IF v.called THEN @ + 1 ELSE @]
             /\ verdict' = IF ~v.called THEN "none"
                            ELSE IF ~reply.ok THEN "failed"
                            ELSE IF reply.is_valid THEN "readable"
                            ELSE "unreadable"
             /\ IF v.exc # NoExc THEN Fail(v.exc)
                ELSE IF v.val THEN pc' = "returned" /\ UNCHANGED raised
                ELSE pc' = "ocr" /\ UNCHANGED raised
    /\ native' = text
    /\ UNCHANGED <<doc, text, images, ocrOut, anaVars>>

\* "text = self._ocr_fallback(pdf_path)" and the return
OcrFallback ==
    /\ pc = "ocr"
    /\ \E reply \in OcrReplies :
         LET r == _ocr_fallback(reply)
         IN  IF r.exc # NoExc
             THEN Fail(r.exc) /\ UNCHANGED <<text, ocrOut>>
             ELSE /\ text' = r.val
                  /\ ocrOut' = reply.text
                  /\ pc' = "returned"
                  /\ UNCHANGED raised
    /\ calls' = [calls EXCEPT !.ocr = @ + 1]
    /\ UNCHANGED <<doc, images, native, verdict, anaVars>>

(* ----------------------- DocumentAnalyzer.forward ---------------------- *)
\* an exception that escapes forward
FailAnalysis(e) == pc' = "analysis_raised" /\ raised' = e

Note(call, reply) ==
    /\ made' = made \cup {call}
    /\ failed' = IF reply.ok THEN failed ELSE failed \cup {call}

\* main.py hands the pair process returned to the analyzer
AnalyzeText ==
    /\ pc = "returned"
    /\ \E reply \in TextReplies :
         LET r == _analyze_text(text, reply)
         IN  /\ Note("text", reply)
             /\ IF r.exc # NoExc
                THEN FailAnalysis(r.exc) /\ UNCHANGED r_text
                ELSE r_text' = r.val /\ pc' = "analyze_images"
                     /\ UNCHANGED raised
    /\ UNCHANGED <<procVars, r_images, combined, validation, warned, output>>

AnalyzeImages ==
    /\ pc = "analyze_images"
    /\ \E reply \in ImageReplies :
         LET r == _analyze_images(images, reply)
         IN  /\ Note("images", reply)
             /\ IF r.exc # NoExc
                THEN FailAnalysis(r.exc) /\ UNCHANGED r_images
                ELSE r_images' = r.val /\ pc' = "combine"
                     /\ UNCHANGED raised
    /\ UNCHANGED <<procVars, r_text, combined, validation, warned, output>>

CombineResults ==
    /\ pc = "combine"
    /\ \E reply \in FusionReplies :
         LET r == _combine_results(r_text, r_images, reply)
         IN  /\ IF r.called THEN Note("fusion", reply)
                ELSE UNCHANGED <<made, failed>>
             /\ IF r.exc # NoExc
                THEN FailAnalysis(r.exc) /\ UNCHANGED combined
                ELSE combined' = r.val /\ pc' = "validate"
                     /\ UNCHANGED raised
    /\ UNCHANGED <<procVars, r_text, r_images, validation, warned, output>>

ValidateResults ==
    /\ pc = "validate"
    /\ \E reply \in ValidationReplies :
         LET r == _validate_results(text, images, combined, reply)
         IN  /\ Note("validation", reply)
             /\ IF r.exc # NoExc
                THEN FailAnalysis(r.exc) /\ UNCHANGED validation
                ELSE validation' = r.val /\ pc' = "format"
                     /\ UNCHANGED raised
    /\ UNCHANGED <<procVars, r_text, r_images, combined, warned, output>>

\* the threshold test, the warning and "return self._format_output(...)"
FormatOutput ==
    /\ pc = "format"
    /\ warned' = low_confidence(validation)
    /\ output' = _format_output(combined, validation)
    /\ pc' = "done"
    /\ UNCHANGED <<procVars, raised, r_text, r_images, combined, validation,
                   made, failed>>

Next ==
    \/ ValidateFile
    \/ OpenDocument
    \/ ProcessPage
    \/ QualityGate
    \/ OcrFallback
    \/ AnalyzeText
    \/ AnalyzeImages
    \/ CombineResults
    \/ ValidateResults
    \/ FormatOutput

Spec == Init /\ [][Next]_vars

(* --------------------------- state predicates -------------------------- *)
\* process has returned (text, images); forward may have started
ReturnedPcs ==
    {"returned", "analyze_images", "combine", "validate", "format", "done"}

Missing(d) == ~d.exists
Oversized(d) == d.exists /\ d.size > MAX_FILE_SIZE
Unparseable(d) == d.exists /\ ~d.parses
TooManyPages(d) == d.exists /\ d.parses /\ Len(d.pages) > MAX_FILE_PAGE

\* the source passes input validation
PassedValidation(d) ==
    ~Missing(d) /\ ~Oversized(d) /\ ~Unparseable(d) /\ ~TooManyPages(d)

AllPagesEmpty(d) == \A i \in 1..Len(d.pages) : strip(d.pages[i]) = <<>>

\* every page was extracted and rendered and process went on to its
\* quality gate
GateReached ==
    /\ PassedValidation(doc)
    /\ Len(images) = Len(doc.pages)
    /\ pc \notin {"validate_file", "open", "pages"}

SinglePageWithText(d) ==
    PassedValidation(d) /\ Len(d.pages) = 1 /\ strip(d.pages[1]) # <<>>

ImageOnlyOutput ==
    /\ output.description = r_images.description
    /\ output.summary = r_images.summary
    /\ output.notable_info = r_images.notable_info

(* -------------------------------- claims ------------------------------- *)

\* C1: whichever of the four inference calls fail, forward raises nothing
\* and returns a record with exactly the keys description, summary,
\* notable_info and confidence, confidence holding score and notes.
C1_OutputShape ==
    /\ pc # "analysis_raised"
    /\ pc = "done" =>
         /\ raised = NoExc
         /\ DOMAIN output =
               {"description", "summary", "notable_info", "confidence"}
         /\ DOMAIN output.confidence = {"score", "notes"}

\* C1 witness: forward returned although image analysis, fusion and
\* validation all failed.
C1_Witness ==
    pc = "done" /\ failed = {"images", "fusion", "validation"}

\* C2: when the text result has quality "unusable" (reported or
\* substituted), the fusion call is not made and the fused result and the
\* output's description, summary and notable_info are the image result's.
C2_UnusableTextPassesImages ==
    r_text.text_quality = "unusable" =>
        /\ "fusion" \notin made
        /\ pc \in {"validate", "format", "done"} => combined = r_images
        /\ pc = "done" => ImageOnlyOutput

\* C2 witness: the inference call itself reported "unusable", image
\* analysis succeeded, and forward returned.
C2_Witness ==
    /\ pc = "done"
    /\ r_text.text_quality = "unusable"
    /\ "text" \notin failed
    /\ "images" \notin failed

\* C3 as stated: each of the four invalid inputs (missing, oversized,
\* unparseable, too many pages) makes process fail with
\* InvalidDocumentError.
C3_AllInvalidInputsInvalidDocument ==
    ~PassedValidation(doc) =>
        /\ pc \in {"validate_file", "open", "raised"}
        /\ pc = "raised" => raised = InvalidDocumentError

\* C3 amended: a missing path makes process fail with FileNotFoundError;
\* an oversized file, an unparseable file and too many pages each make it
\* fail with InvalidDocumentError.
C3_InvalidInputs ==
    ~PassedValidation(doc) =>
        /\ pc \in {"validate_file", "open", "raised"}
        /\ pc = "raised" =>
             raised = IF Missing(doc) THEN FileNotFoundError
                      ELSE InvalidDocumentError

\* C3 witness: process failed on a missing path.
C3_Witness ==
    pc = "raised" /\ Missing(doc) /\ raised = FileNotFoundError

\* C4 as stated: once the source has passed input validation, every failure
\* of process (text extraction, rendering, the readability classifier, OCR)
\* is a ContentExtractionError.
C4_FailuresAreContentExtractionError ==
    (PassedValidation(doc) /\ pc = "raised") =>
        raised = ContentExtractionError

\* C5: a PDF with more pages than the ceiling makes process fail with
\* InvalidDocumentError before any page text is extracted, any page is
\* rendered, the classifier is invoked or OCR is run.
C5_TooManyPagesFailsFast ==
    TooManyPages(doc) =>
        /\ calls = NoCalls
        /\ pc \in {"validate_file", "open", "raised"}
        /\ pc = "raised" => raised = InvalidDocumentError

\* C5 witness: a file within the size ceiling failed on its page count.
C5_Witness ==
    /\ pc = "raised"
    /\ TooManyPages(doc)
    /\ ~Oversized(doc)
    /\ raised = InvalidDocumentError

\* C6: for a document all of whose pages have empty trimmed text (zero
\* pages included) the classifier is never invoked, and once process is
\* past page extraction it runs OCR: it never returns without it.
C6_EmptyTextTakesOcr ==
    AllPagesEmpty(doc) =>
        /\ calls.classify = 0
        /\ verdict = "none"
        /\ GateReached => (pc = "ocr" \/ calls.ocr = 1)

\* C6 witness: a document with a whitespace-only page went through OCR and
\* process returned.
C6_Witness ==
    /\ pc = "returned"
    /\ AllPagesEmpty(doc)
    /\ \E i \in 1..Len(doc.pages) : doc.pages[i] # <<>>
    /\ calls.ocr = 1
    /\ calls.classify = 0

\* C7: when the classifier judged the native text unreadable and OCR
\* succeeded, the returned text is exactly what OCR rendered; when it
\* judged the text readable, OCR is not run and the native concatenation
\* is returned.
C7_OcrReplacesNativeText ==
    /\ verdict = "readable" => (pc # "ocr" /\ calls.ocr = 0)
    /\ pc \in ReturnedPcs =>
         /\ verdict = "unreadable" => (calls.ocr = 1 /\ text = ocrOut)
         /\ verdict = "readable" => text = native

\* C7 witness: OCR output shorter than the native text replaced it, and the
\* OCR output ends in whitespace.
C7_Witness ==
    /\ pc = "returned"
    /\ verdict = "unreadable"
    /\ Len(ocrOut) < Len(native)
    /\ ocrOut # <<>>
    /\ text = ocrOut

\* C8 as stated: for a valid single-page PDF with native text, process
\* returns the trimmed page text plus a newline, and exactly one image.
C8_SinglePageAlwaysNative ==
    (SinglePageWithText(doc) /\ pc \in ReturnedPcs) =>
        /\ text = strip(doc.pages[1]) \o <<"\n">>
        /\ text # <<>>
        /\ Len(images) = 1

\* C8 amended: for a valid single-page PDF with native text that the
\* classifier judges readable, process returns the trimmed page text plus
\* a newline, and exactly one image.
C8_SinglePageReadable ==
    (SinglePageWithText(doc) /\ verdict = "readable" /\ pc \in ReturnedPcs) =>
        /\ text = strip(doc.pages[1]) \o <<"\n">>
        /\ text # <<>>
        /\ Len(images) = 1

\* C8 witness: a page whose raw text had surrounding whitespace was
\* returned trimmed.
C8_Witness ==
    /\ pc = "returned"
    /\ SinglePageWithText(doc)
    /\ verdict = "readable"
    /\ doc.pages[1] # strip(doc.pages[1])
    /\ Len(images) = 1

\* C9 as stated: when the text passed to forward is empty, the text quality
\* is "unusable" and the result is the image-only analysis with the
\* validation score.
C9_EmptyTextIsUnusable ==
    (pc = "done" /\ text = <<>>) =>
        /\ r_text.text_quality = "unusable"
        /\ ImageOnlyOutput

\* C9 amended: when the text passed to forward is empty and the
\* text-analysis call fails or reports "unusable", the text quality is
\* "unusable" and the result is the image-only analysis with the validation
\* result as its confidence.
C9_EmptyTextUnusable ==
    (/\ pc = "done"
     /\ text = <<>>
     /\ ("text" \in failed \/ r_text.text_quality = "unusable")) =>
        /\ r_text.text_quality = "unusable"
        /\ ImageOnlyOutput
        /\ output.confidence =
              [score |-> validation.confidence_score,
               notes |-> validation.validation_notes]

\* C9 witness: OCR yielded empty text, the text-analysis call failed, and
\* forward returned.
C9_Witness ==
    /\ pc = "done"
    /\ calls.ocr = 1
    /\ text = <<>>
    /\ "text" \in failed

\* C10 as stated: the returned confidence.score lies in [0,1] whatever the
\* validation call returns, and is 0.0 with empty notes when it fails.
C10_ScoreInUnitInterval ==
    pc = "done" =>
        /\ output.confidence.score \in 0..100
        /\ "validation" \in failed =>
             (output.confidence.score = 0 /\ output.confidence.notes = <<>>)

\* C11: forward logs the low-confidence warning exactly when the
\* validation score (0.0 when validation failed) is strictly below 0.6, and
\* the record it returns is built from the fused result and the validation
\* result alone, the same with and without the warning.
C11_WarningBelowThreshold ==
    /\ pc # "done" => ~warned
    /\ pc = "done" =>
         /\ warned <=> (validation.confidence_score < MIN_CONFIDENCE)
         /\ "validation" \in failed =>
              (validation.confidence_score = 0 /\ warned)
         /\ output =
              [description |-> combined.description,
               summary |-> combined.summary,
               notable_info |-> combined.notable_info,
               confidence |-> [score |-> validation.confidence_score,
                               notes |-> validation.validation_notes]]

\* C11 witness: the validation call succeeded with a score just below the
\* threshold, and forward warned and returned.
C11_Witness ==
    /\ pc = "done"
    /\ warned
    /\ "validation" \notin failed
    /\ validation.confidence_score = MIN_CONFIDENCE - 1
    /\ output.confidence.score = MIN_CONFIDENCE - 1

=============================================================================
